---- MODULE Spec2Model ----
(***************************************************************************)
(* Model of analytics_service.py: a Flask service that answers attendance  *)
(* analytics queries over a relational schema (asistencias, grupos,        *)
(* usuarios, profesores_grupos).  The service holds no state between       *)
(* requests; the state of the model is the asistencias table (written by   *)
(* the rest of the system) and the request in flight.                      *)
(*                                                                         *)
(* Percentages are kept as integer hundredths (66.67 is 6667).             *)
(* Dates are day numbers of the year 2024 (1 = Monday 1 January).          *)
(* JSON serialisation (jsonify) is outside the model: a response body is   *)
(* the Python structure handed to jsonify, a record whose fields are the   *)
(* JSON keys.  Pass-through columns (codigo, email, total_estudiantes) are *)
(* left out; asistencias.fecha is taken to be a DATETIME column, so that   *)
(* a non-empty result has a datetime64 index.                              *)
(***************************************************************************)
EXTENDS Integers, Sequences, FiniteSets, TLC

----------------------------------------------------------------------------
(* Bounds of the model *)

\* Rows of asistencias under Spec.
MaxEventos == 4

\* Rows of asistencias under SpecRiesgo.
MaxClases == 6

----------------------------------------------------------------------------
(* Database contents *)

\* usuarios.id of the students
Estudiantes == {1, 2}

\* usuarios.nombre_usuario
NombreUsuario(id) == IF id = 1 THEN "ana" ELSE IF id = 2 THEN "luis" ELSE "eva"

Grupos == {1, 2}

Profesores == {1, 2}

Estados == {"PRESENTE", "AUSENTE", "TARDANZA", "JUSTIFICADO"}

\* Statuses counted as attending: isin(['PRESENTE', 'TARDANZA']).
Asistio == {"PRESENTE", "TARDANZA"}

\* CURDATE(): 11 March 2024.
Hoy == 71

\* INTERVAL 30 DAY.
Ventana == 30

\* DATE_SUB(CURDATE(), INTERVAL 30 DAY)
Corte == Hoy - Ventana

\* grupos.materia
MateriaDe(g) == IF g % 2 = 1 THEN "Calculo" ELSE "Fisica"

\* profesores_grupos: teacher 1 teaches both groups, teacher 2 has a
\* deactivated assignment to group 1.
profesores_grupos ==
    {[profesor_id |-> 1, grupo_id |-> g, activo |-> 1] : g \in Grupos}
    \cup {[profesor_id |-> 2, grupo_id |-> 1, activo |-> 0]}

\* Date of the k-th class of group g: group 1 meets weekly from day 40 (the
\* day before the window opens), every other group daily from day 41.
FechaClase(g, k) == IF g = 1 THEN 33 + 7 * k ELSE 40 + k

----------------------------------------------------------------------------
(* Helpers for dataframes, kept as sets of row records *)

RECURSIVE Ordenar(_)
\* Ascending sequence of a finite set of integers (a sorted index).
Ordenar(S) ==
    IF S = {} THEN << >>
    ELSE LET m == CHOOSE x \in S : \A y \in S : x <= y
         IN  <<m>> \o Ordenar(S \ {m})

\* len(x)
Contar(filas) == Cardinality(filas)

\* (x == estado).sum()
ContarEstado(filas, s) == Cardinality({r \in filas : r.estado = s})

\* isin() over every status but AUSENTE.
ContarAsistioMut(filas) ==
    Cardinality({r \in filas : r.estado # "AUSENTE"})

\* x.isin(['PRESENTE', 'TARDANZA']).sum()
ContarAsistio(filas) == Cardinality({r \in filas : r.estado \in Asistio})

\* Python round(num / den * 100, 2) and numpy round: nearest hundredth,
\* ties to even.
RedondearPy(num, den) ==
    LET q == (num * 10000) \div den
        r == (num * 10000) % den
    IN  IF 2 * r < den THEN q
        ELSE IF 2 * r > den THEN q + 1
        ELSE IF q % 2 = 0 THEN q ELSE q + 1

\* MySQL ROUND(x, 2) on an exact DECIMAL: nearest hundredth, ties away
\* from zero.
RedondearSQL(num, den) ==
    LET q == (num * 10000) \div den
        r == (num * 10000) % den
    IN  IF 2 * r < den THEN q ELSE q + 1

\* dt.isocalendar().week for a day of 2024.
SemanaISO(d) == ((d - 1) \div 7) + 1

\* strftime('%Y-%m-%d') for a day of February or March 2024.
FormatFecha(d) ==
    IF d <= 31 THEN <<2024, 1, d>>
    ELSE IF d <= 60 THEN <<2024, 2, d - 31>>
    ELSE <<2024, 3, d - 60>>

----------------------------------------------------------------------------
VARIABLES
    asistencias,     \* the asistencias table: rows [estudiante, grupo, fecha, estado]
    pc,              \* "idle", "bucle" (inside reporte_profesor's loop), "done"
    ruta,            \* the endpoint of the request in flight
    param,           \* its path parameter
    pendientes,      \* reporte_profesor: groups of df_grupos not yet iterated
    resultados,      \* reporte_profesor: the list built so far
    respuesta,       \* the response [codigo, cuerpo] once pc = "done"
    fetch_fallido    \* a pd.read_sql of this request raised

vars == <<asistencias, pc, ruta, param, pendientes, resultados, respuesta,
          fetch_fallido>>

SinRespuesta == [codigo |-> 0, cuerpo |-> [vacio |-> TRUE]]

Init ==
    /\ asistencias = {}
    /\ pc = "idle"
    /\ ruta = "ninguna"
    /\ param = 0
    /\ pendientes = << >>
    /\ resultados = << >>
    /\ respuesta = SinRespuesta
    /\ fetch_fallido = FALSE

\* return jsonify({...})
Json200(cuerpo) == [codigo |-> 200, cuerpo |-> cuerpo]

\* An except clause that answers with the no-data message and status 200.
ExcepcionMut(e) == [codigo |-> 200, cuerpo |-> [mensaje |-> e]]

\* except Exception as e: return jsonify({'error': str(e)}), 500
Excepcion(e) == [codigo |-> 500, cuerpo |-> [error |-> e]]

----------------------------------------------------------------------------
(* The SQL queries, evaluated on the current tables *)

\* /asistencia/general: last 30 days, LEFT JOIN profesores_grupos (one row
\* per assignment of the group, NULL profesor when it has none).
ConsultaGeneral ==
    LET ProfesoresDe(g) ==
            {pg.profesor_id : pg \in {x \in profesores_grupos : x.grupo_id = g}}
        ColumnaProfesor(g) ==
            IF ProfesoresDe(g) = {} THEN {0} ELSE ProfesoresDe(g)
    IN  UNION {{[fecha |-> a.fecha, estado |-> a.estado,
                  grupo_codigo |-> a.grupo, materia |-> MateriaDe(a.grupo),
                  estudiante |-> NombreUsuario(a.estudiante),
                  profesor |-> p] : p \in ColumnaProfesor(a.grupo)} :
                    a \in {x \in asistencias : x.fecha >= Corte}}

\* /asistencia/grupo/<id>: WHERE a.grupo_id = grupo_id
ConsultaGrupo(grupo_id) ==
    {[fecha |-> a.fecha, estado |-> a.estado,
      estudiante |-> NombreUsuario(a.estudiante)] :
        a \in {x \in asistencias : x.grupo = grupo_id}}

\* /asistencia/estudiante/<id>: WHERE a.estudiante_id = estudiante_id
ConsultaEstudiante(estudiante_id) ==
    {[fecha |-> a.fecha, estado |-> a.estado, grupo_codigo |-> a.grupo,
      materia |-> MateriaDe(a.grupo)] :
        a \in {x \in asistencias : x.estudiante = estudiante_id}}

\* query_grupos: WHERE pg.profesor_id = profesor_id AND pg.activo = 1,
\* GROUP BY g.id; the rows come in id order.
ConsultaGruposProfesor(profesor_id) ==
    Ordenar({pg.grupo_id : pg \in {x \in profesores_grupos :
                x.profesor_id = profesor_id /\ x.activo = 1}})

\* query_asistencia: SELECT a.estado, COUNT(*) ... GROUP BY a.estado
ConsultaAsistenciaGrupo(grupo_id) ==
    LET filas == {a \in asistencias : a.grupo = grupo_id}
    IN  {[estado |-> s, cantidad |-> ContarEstado(filas, s)] :
            s \in {a.estado : a \in filas}}

\* HAVING porcentaje_asistencia < 75
HavingMut(p) == p <= 7500

Having(p) == p < 7500

\* The grouped rows of the dropout query, before ORDER BY.
FilasDesercion ==
    LET enVentana == {a \in asistencias : a.fecha >= Corte}
        De(e) == {a \in enVentana : a.estudiante = e}
        Fila(e) ==
            [estudiante_id |-> e, nombre_usuario |-> NombreUsuario(e),
             ausencias |-> ContarEstado(De(e), "AUSENTE"),
             total_clases |-> Contar(De(e)),
             porcentaje_asistencia |->
                 RedondearSQL(ContarAsistio(De(e)), Contar(De(e)))]
    IN  {f \in {Fila(e) : e \in {a.estudiante : a \in enVentana}} :
            Having(f.porcentaje_asistencia)}

\* ORDER BY porcentaje_asistencia ASC: every order of the rows that is
\* ascending in the percentage (SQL leaves the order of ties open).
OrderByMut(filas) ==
    {f \in [1..Cardinality(filas) -> filas] :
        \A i, j \in 1..Cardinality(filas) : i # j => f[i] # f[j]}

OrderBy(filas) ==
    {f \in [1..Cardinality(filas) -> filas] :
        /\ \A i, j \in 1..Cardinality(filas) : i # j => f[i] # f[j]
        /\ \A i, j \in 1..Cardinality(filas) :
              i < j => f[i].porcentaje_asistencia <= f[j].porcentaje_asistencia}

\* The possible results of the dropout query.
ConsultaDesercion == OrderBy(FilasDesercion)

----------------------------------------------------------------------------
(* analisis_asistencia_general *)

\* df['estado'].value_counts().to_dict(): only the statuses that occur.
EstadoCounts(df) ==
    [s \in {r.estado : r \in df} |-> ContarEstado(df, s)]

\* Index of df.groupby(['fecha', 'estado']).size().unstack(fill_value=0):
\* the distinct dates, ascending.
TendenciaIndex(df) == Ordenar({r.fecha : r \in df})

\* Its columns: the statuses that occur somewhere in df.
TendenciaColumnas(df) == {r.estado : r \in df}

\* tendencia.get(estado, pd.Series()).tolist(): the zero-filled column of a
\* status that occurs, the empty default otherwise.
TendenciaGet(df, s) ==
    IF s \in TendenciaColumnas(df)
    THEN [i \in 1..Len(TendenciaIndex(df)) |->
            Cardinality({r \in df : r.fecha = TendenciaIndex(df)[i]
                                    /\ r.estado = s})]
    ELSE << >>

\* tendencia.index.strftime exists only on a DatetimeIndex; an empty result
\* of read_sql has object columns, so its index is a plain Index and the
\* attribute access raises AttributeError.
IndexTieneStrftime(df) == df # {}

TendenciaDict(df) ==
    [fechas |-> [i \in 1..Len(TendenciaIndex(df)) |->
                    FormatFecha(TendenciaIndex(df)[i])],
     presente |-> TendenciaGet(df, "PRESENTE"),
     ausente |-> TendenciaGet(df, "AUSENTE"),
     tardanza |-> TendenciaGet(df, "TARDANZA"),
     justificado |-> TendenciaGet(df, "JUSTIFICADO")]

\* df.groupby('materia').apply(...).round(2).to_dict()
AsistenciaMateria(df) ==
    [m \in {r.materia : r \in df} |->
        LET x == {r \in df : r.materia = m}
        IN  RedondearPy(ContarAsistio(x), Contar(x))]

\* The body of the try block after read_sql.
GeneralRespuesta(df) ==
    IF ~IndexTieneStrftime(df)
    THEN Excepcion("AttributeError")
    ELSE Json200([estado_general |-> EstadoCounts(df),
                  tendencia_diaria |-> TendenciaDict(df),
                  asistencia_por_materia |-> AsistenciaMateria(df)])

----------------------------------------------------------------------------
(* analisis_asistencia_grupo *)

\* if df.empty, with the test dropped
DfEmptyMut(df) == FALSE

\* if df.empty
DfEmpty(df) == df = {}

\* One value of the agg lambda over a student's estado column.
StatsDe(x) ==
    [total_clases |-> Contar(x),
     presentes |-> ContarEstado(x, "PRESENTE"),
     ausentes |-> ContarEstado(x, "AUSENTE"),
     tardanzas |-> ContarEstado(x, "TARDANZA"),
     justificados |-> ContarEstado(x, "JUSTIFICADO"),
     porcentaje_asistencia |-> RedondearPy(ContarAsistio(x), Contar(x))]

\* df.groupby('estudiante').agg({...}).to_dict()['estado']
EstudianteStats(df) ==
    [e \in {r.estudiante : r \in df} |->
        StatsDe({r \in df : r.estudiante = e})]

\* unstack() without fill_value, NaN cells dropped: a sparse mapping.
TendenciaSemanalMut(df) ==
    [w \in {SemanaISO(r.fecha) : r \in df} |->
        [s \in {r.estado : r \in {x \in df : SemanaISO(x.fecha) = w}} |->
            Cardinality({r \in df : SemanaISO(r.fecha) = w /\ r.estado = s})]]

\* df.groupby(['semana', 'estado']).size().unstack(fill_value=0)
\*   .to_dict('index'): one row per week, one column per status of df.
TendenciaSemanal(df) ==
    [w \in {SemanaISO(r.fecha) : r \in df} |->
        [s \in {r.estado : r \in df} |->
            Cardinality({r \in df : SemanaISO(r.fecha) = w /\ r.estado = s})]]

GrupoRespuesta(df) ==
    IF DfEmpty(df)
    THEN Json200([mensaje |-> "No hay datos de asistencia para este grupo"])
    ELSE Json200([estadisticas_estudiantes |-> EstudianteStats(df),
                  tendencia_semanal |-> TendenciaSemanal(df)])

----------------------------------------------------------------------------
(* analisis_asistencia_estudiante *)

\* df.groupby('materia').apply(...).to_dict()
PorMateria(df) ==
    [m \in {r.materia : r \in df} |->
        LET x == {r \in df : r.materia = m}
        IN  [total |-> Contar(x),
             asistencias |-> ContarAsistio(x),
             porcentaje |-> RedondearPy(ContarAsistio(x), Contar(x))]]

EstudianteRespuesta(df) ==
    IF DfEmpty(df)
    THEN Json200([mensaje |-> "No hay datos de asistencia para este estudiante"])
    ELSE Json200([estadisticas_generales |-> StatsDe(df),
                  por_materia |-> PorMateria(df)])

----------------------------------------------------------------------------
(* reporte_profesor *)

RECURSIVE SumaCantidad(_)
\* df_asistencia['cantidad'].sum()
SumaCantidad(df) ==
    IF df = {} THEN 0
    ELSE LET r == CHOOSE x \in df : TRUE
         IN  r.cantidad + SumaCantidad(df \ {r})

\* df_asistencia.set_index('estado')['cantidad'].to_dict()
AsistenciaData(df) ==
    [s \in {r.estado : r \in df} |->
        (CHOOSE r \in df : r.estado = s).cantidad]

\* asistencia_data.get(estado, 0)
DataGet(data, s) == IF s \in DOMAIN data THEN data[s] ELSE 0

\* porcentaje_asistencia of one group: 0 unless total > 0.
PorcentajeGrupo(df) ==
    IF SumaCantidad(df) > 0
    THEN RedondearPy(DataGet(AsistenciaData(df), "PRESENTE")
                       + DataGet(AsistenciaData(df), "TARDANZA"),
                     SumaCantidad(df))
    ELSE 0

\* The dictionary appended for one group.
EntradaGrupo(g, df) ==
    [grupo_id |-> g, materia |-> MateriaDe(g),
     estadisticas_asistencia |-> AsistenciaData(df),
     porcentaje_asistencia |-> PorcentajeGrupo(df)]

\* One iteration of the loop: the entry is appended only when
\* df_asistencia is not empty.
Iterar(res, g, df) ==
    IF df # {} THEN Append(res, EntradaGrupo(g, df)) ELSE res

ProfesorRespuesta(res) ==
    Json200([grupos |-> res, total_grupos |-> Len(res)])

----------------------------------------------------------------------------
(* prediccion_desercion *)

NaN == "NaN"

\* pd.cut with right=False: intervals closed on the left.
CutMut(p) ==
    IF 0 <= p /\ p < 5000 THEN "CRITICO"
    ELSE IF 5000 <= p /\ p < 6500 THEN "ALTO"
    ELSE IF 6500 <= p /\ p < 7500 THEN "MEDIO"
    ELSE IF 7500 <= p /\ p < 10000 THEN "BAJO"
    ELSE NaN

\* pd.cut(p, bins=[0, 50, 65, 75, 100], labels=[...]): intervals open on
\* the left and closed on the right; a value in no interval gets NaN.
Cut(p) ==
    IF 0 < p /\ p <= 5000 THEN "CRITICO"
    ELSE IF 5000 < p /\ p <= 6500 THEN "ALTO"
    ELSE IF 6500 < p /\ p <= 7500 THEN "MEDIO"
    ELSE IF 7500 < p /\ p <= 10000 THEN "BAJO"
    ELSE NaN

\* df['nivel_riesgo'] = pd.cut(...); df.to_dict('records')
EstudiantesRiesgo(df) ==
    [i \in 1..Len(df) |->
        [estudiante_id |-> df[i].estudiante_id,
         nombre_usuario |-> df[i].nombre_usuario,
         ausencias |-> df[i].ausencias,
         total_clases |-> df[i].total_clases,
         porcentaje_asistencia |-> df[i].porcentaje_asistencia,
         nivel_riesgo |-> Cut(df[i].porcentaje_asistencia)]]

DesercionRespuesta(df) ==
    Json200([estudiantes_en_riesgo |-> EstudiantesRiesgo(df),
             total_en_riesgo |-> Len(EstudiantesRiesgo(df))])

----------------------------------------------------------------------------
(* Actions *)

\* The fetch raised: the except clause of the handler answers.
FetchFallido == Excepcion("OperationalError")

\* The handler returns: the response is ready for the client.
Responder(r, p, resp, fallo) ==
    /\ pc' = "done"
    /\ ruta' = r
    /\ param' = p
    /\ respuesta' = resp
    /\ fetch_fallido' = fallo
    /\ UNCHANGED <<asistencias, pendientes, resultados>>

\* The rest of the system records the status of student e in the next
\* class of group g (not later than today).
Registrar(e, g, s) ==
    LET k == Cardinality({a \in asistencias :
                            a.estudiante = e /\ a.grupo = g}) + 1
    IN  /\ pc = "idle"
        /\ FechaClase(g, k) <= Hoy
        /\ asistencias' = asistencias \cup
               {[estudiante |-> e, grupo |-> g, fecha |-> FechaClase(g, k),
                 estado |-> s]}
        /\ UNCHANGED <<pc, ruta, param, pendientes, resultados, respuesta,
                       fetch_fallido>>

RegistrarAsistencia ==
    /\ Cardinality(asistencias) < MaxEventos
    /\ \E e \in Estudiantes, g \in Grupos, s \in Estados : Registrar(e, g, s)

Health ==
    /\ pc = "idle"
    /\ Responder("health", 0,
                 Json200([status |-> "ok", service |-> "analytics"]), FALSE)

AnalisisAsistenciaGeneral ==
    /\ pc = "idle"
    /\ \E ok \in BOOLEAN :
          IF ok
          THEN Responder("general", 0, GeneralRespuesta(ConsultaGeneral), FALSE)
          ELSE Responder("general", 0, FetchFallido, TRUE)

AnalisisAsistenciaGrupo ==
    /\ pc = "idle"
    /\ \E grupo_id \in Grupos, ok \in BOOLEAN :
          IF ok
          THEN Responder("grupo", grupo_id,
                         GrupoRespuesta(ConsultaGrupo(grupo_id)), FALSE)
          ELSE Responder("grupo", grupo_id, FetchFallido, TRUE)

AnalisisAsistenciaEstudiante ==
    /\ pc = "idle"
    /\ \E estudiante_id \in Estudiantes, ok \in BOOLEAN :
          IF ok
          THEN Responder("estudiante", estudiante_id,
                         EstudianteRespuesta(ConsultaEstudiante(estudiante_id)),
                         FALSE)
          ELSE Responder("estudiante", estudiante_id, FetchFallido, TRUE)

\* reporte_profesor up to the loop: read df_grupos.
ReporteProfesorGrupos ==
    /\ pc = "idle"
    /\ \E profesor_id \in Profesores, ok \in BOOLEAN :
          IF ok
          THEN /\ pc' = "bucle"
               /\ ruta' = "profesor"
               /\ param' = profesor_id
               /\ pendientes' = ConsultaGruposProfesor(profesor_id)
               /\ resultados' = << >>
               /\ UNCHANGED <<asistencias, respuesta, fetch_fallido>>
          ELSE Responder("profesor", profesor_id, FetchFallido, TRUE)

\* One iteration of the loop: read df_asistencia of the next group.
ReporteProfesorIteracion ==
    /\ pc = "bucle"
    /\ pendientes # << >>
    /\ \E ok \in BOOLEAN :
          IF ok
          THEN /\ resultados' = Iterar(resultados, Head(pendientes),
                                       ConsultaAsistenciaGrupo(Head(pendientes)))
               /\ pendientes' = Tail(pendientes)
               /\ UNCHANGED <<asistencias, pc, ruta, param, respuesta,
                              fetch_fallido>>
          ELSE Responder(ruta, param, FetchFallido, TRUE)

\* The loop is over: return the list.
ReporteProfesorFin ==
    /\ pc = "bucle"
    /\ pendientes = << >>
    /\ Responder(ruta, param, ProfesorRespuesta(resultados), FALSE)

PrediccionDesercion ==
    /\ pc = "idle"
    /\ \E ok \in BOOLEAN :
          IF ok
          THEN \E df \in ConsultaDesercion :
                  Responder("desercion", 0, DesercionRespuesta(df), FALSE)
          ELSE Responder("desercion", 0, FetchFallido, TRUE)

\* The client takes the response; the request's locals are gone.
Entregar ==
    /\ pc = "done"
    /\ pc' = "idle"
    /\ ruta' = "ninguna"
    /\ param' = 0
    /\ pendientes' = << >>
    /\ resultados' = << >>
    /\ respuesta' = SinRespuesta
    /\ fetch_fallido' = FALSE
    /\ UNCHANGED asistencias

Next ==
    \/ RegistrarAsistencia
    \/ Health
    \/ AnalisisAsistenciaGeneral
    \/ AnalisisAsistenciaGrupo
    \/ AnalisisAsistenciaEstudiante
    \/ ReporteProfesorGrupos
    \/ ReporteProfesorIteracion
    \/ ReporteProfesorFin
    \/ PrediccionDesercion
    \/ Entregar

Spec == Init /\ [][Next]_vars

\* The dropout classifier alone, on a longer record: student 1 attends
\* group 1 only and student 2 group 2 only.
Inscripcion == {<<1, 1>>, <<2, 2>>}

RegistrarClase ==
    /\ Cardinality(asistencias) < MaxClases
    /\ \E i \in Inscripcion, s \in Estados : Registrar(i[1], i[2], s)

NextRiesgo ==
    \/ RegistrarClase
    \/ PrediccionDesercion
    \/ Entregar

SpecRiesgo == Init /\ [][NextRiesgo]_vars

----------------------------------------------------------------------------
(* Properties *)

\* A handler has returned with status 200 on endpoint r.
Exito(r) == pc = "done" /\ ruta = r /\ respuesta.codigo = 200

\* The rows of a scope that count as attended.
Asistentes(x) == {r \in x : r.estado = "PRESENTE" \/ r.estado = "TARDANZA"}

\* The events of student e inside the 30-day window.
EnVentana(e) == {a \in asistencias : a.estudiante = e /\ a.fecha >= Corte}

\* Every percentage of the response at hand, paired with the rows of its
\* scope.
PorcentajesReportados ==
    IF Exito("general")
    THEN {<<respuesta.cuerpo.asistencia_por_materia[m],
            {r \in ConsultaGeneral : r.materia = m}>> :
              m \in DOMAIN respuesta.cuerpo.asistencia_por_materia}
    ELSE IF Exito("grupo") /\ "mensaje" \notin DOMAIN respuesta.cuerpo
    THEN {<<respuesta.cuerpo.estadisticas_estudiantes[e].porcentaje_asistencia,
            {r \in ConsultaGrupo(param) : r.estudiante = e}>> :
              e \in DOMAIN respuesta.cuerpo.estadisticas_estudiantes}
    ELSE IF Exito("estudiante") /\ "mensaje" \notin DOMAIN respuesta.cuerpo
    THEN {<<respuesta.cuerpo.estadisticas_generales.porcentaje_asistencia,
            ConsultaEstudiante(param)>>}
         \cup {<<respuesta.cuerpo.por_materia[m].porcentaje,
                 {r \in ConsultaEstudiante(param) : r.materia = m}>> :
                   m \in DOMAIN respuesta.cuerpo.por_materia}
    ELSE IF Exito("profesor")
    THEN {<<respuesta.cuerpo.grupos[i].porcentaje_asistencia,
            {a \in asistencias :
                a.grupo = respuesta.cuerpo.grupos[i].grupo_id}>> :
              i \in 1..Len(respuesta.cuerpo.grupos)}
    ELSE IF Exito("desercion")
    THEN {<<respuesta.cuerpo.estudiantes_en_riesgo[i].porcentaje_asistencia,
            EnVentana(respuesta.cuerpo.estudiantes_en_riesgo[i].estudiante_id)>> :
              i \in 1..Len(respuesta.cuerpo.estudiantes_en_riesgo)}
    ELSE {}

\* C1: the per-teacher report lists one entry per group actively assigned
\* to the teacher, and total_grupos is that number, whether or not the
\* group has attendance events.
C1_TodosLosGruposAsignados ==
    Exito("profesor") =>
        LET asignados == {pg \in profesores_grupos :
                            pg.profesor_id = param /\ pg.activo = 1}
        IN  /\ Len(respuesta.cuerpo.grupos) = Cardinality(asignados)
            /\ respuesta.cuerpo.total_grupos = Cardinality(asignados)

\* C2: for a non-empty window the five sequences of tendencia_diaria have
\* one length, and at each index the four counts add up to the number of
\* fetched rows of that date.
C2_TendenciaAlineada ==
    (Exito("general") /\ ConsultaGeneral # {}) =>
        LET t == respuesta.cuerpo.tendencia_diaria
            n == Len(t.fechas)
        IN  /\ Len(t.presente) = n
            /\ Len(t.ausente) = n
            /\ Len(t.tardanza) = n
            /\ Len(t.justificado) = n
            /\ \A i \in 1..n :
                  t.presente[i] + t.ausente[i] + t.tardanza[i]
                      + t.justificado[i]
                  = Cardinality({r \in ConsultaGeneral :
                                    FormatFecha(r.fecha) = t.fechas[i]})

\* C3 as stated: every reported percentage lies in [0, 100] and is 0
\* exactly when its scope has no event.
C3_CeroExactamenteSinEventos ==
    \A pr \in PorcentajesReportados :
        /\ 0 <= pr[1] /\ pr[1] <= 10000
        /\ (pr[1] = 0) <=> (pr[2] = {})

\* C3 amended: every reported percentage lies in [0, 100] and is 0 whenever
\* no event of its scope is PRESENTE or TARDANZA, which includes the scope
\* without events; it is 100 when every event of a non-empty scope is.
C3_PorcentajeEnRango ==
    \A pr \in PorcentajesReportados :
        /\ 0 <= pr[1] /\ pr[1] <= 10000
        /\ Asistentes(pr[2]) = {} => pr[1] = 0
        /\ (pr[2] # {} /\ Asistentes(pr[2]) = pr[2]) => pr[1] = 10000

\* C3 witness: a percentage of 0 is reported for a scope that has events.
C3_Witness ==
    \E pr \in PorcentajesReportados : pr[1] = 0 /\ pr[2] # {}

\* C4: the dropout list holds exactly the students with an event in the
\* window whose rounded percentage is under 75 (a/t rounds under 75.00
\* when 20000 a < 14999 t), in non-decreasing order of percentage, and
\* total_en_riesgo is its length.
C4_FiltroYOrden ==
    Exito("desercion") =>
        LET l == respuesta.cuerpo.estudiantes_en_riesgo
            Bajo75(e) == 20000 * Cardinality(Asistentes(EnVentana(e)))
                            < 14999 * Cardinality(EnVentana(e))
        IN  /\ \A i \in 1..Len(l) : l[i].porcentaje_asistencia < 7500
            /\ \A i \in 1..Len(l) : Bajo75(l[i].estudiante_id)
            /\ \A e \in Estudiantes :
                  (EnVentana(e) # {} /\ Bajo75(e)) =>
                      \E i \in 1..Len(l) : l[i].estudiante_id = e
            /\ \A i, j \in 1..Len(l) :
                  i < j => l[i].porcentaje_asistencia
                              <= l[j].porcentaje_asistencia
            /\ respuesta.cuerpo.total_en_riesgo = Len(l)

\* C4 witness: one student at risk is listed while another, who has events
\* in the window and attended 75 % or more of them, is left out.
C4_Witness ==
    /\ Exito("desercion")
    /\ Len(respuesta.cuerpo.estudiantes_en_riesgo) = 1
    /\ \A e \in Estudiantes : EnVentana(e) # {}

\* C5: a listed student with p in (0, 50] is CRITICO, in (50, 65] ALTO, in
\* (65, 75] MEDIO, and BAJO is given to nobody.
C5_Particion ==
    Exito("desercion") =>
        \A i \in 1..Len(respuesta.cuerpo.estudiantes_en_riesgo) :
            LET p == respuesta.cuerpo.estudiantes_en_riesgo[i].porcentaje_asistencia
                n == respuesta.cuerpo.estudiantes_en_riesgo[i].nivel_riesgo
            IN  /\ (0 < p /\ p <= 5000) => n = "CRITICO"
                /\ (5000 < p /\ p <= 6500) => n = "ALTO"
                /\ (6500 < p /\ p <= 7500) => n = "MEDIO"
                /\ n # "BAJO"

\* C5 witness: a student with 2 PRESENTE and 1 AUSENTE is listed with 66.67
\* and MEDIO, next to a student at exactly 50.00 listed as CRITICO.
C5_Witness ==
    /\ Exito("desercion")
    /\ \E i, j \in 1..Len(respuesta.cuerpo.estudiantes_en_riesgo) :
          /\ respuesta.cuerpo.estudiantes_en_riesgo[i].porcentaje_asistencia = 5000
          /\ respuesta.cuerpo.estudiantes_en_riesgo[i].nivel_riesgo = "CRITICO"
          /\ respuesta.cuerpo.estudiantes_en_riesgo[j].total_clases = 3
          /\ respuesta.cuerpo.estudiantes_en_riesgo[j].ausencias = 1
          /\ respuesta.cuerpo.estudiantes_en_riesgo[j].porcentaje_asistencia = 6667
          /\ respuesta.cuerpo.estudiantes_en_riesgo[j].nivel_riesgo = "MEDIO"

\* C6: when the window holds no event and the fetch succeeds, the general
\* endpoint answers 200 with its three keys.
C6_VentanaVaciaConExito ==
    (pc = "done" /\ ruta = "general" /\ ~fetch_fallido /\ ConsultaGeneral = {})
        => /\ respuesta.codigo = 200
           /\ DOMAIN respuesta.cuerpo
                = {"estado_general", "tendencia_diaria", "asistencia_por_materia"}

\* C7: the per-group and per-student endpoints answer an empty row set with
\* status 200 and the 'mensaje' key alone, and never answer a non-empty row
\* set with 'mensaje'.
C7_SenalSinDatos ==
    (pc = "done" /\ ruta \in {"grupo", "estudiante"}) =>
        LET vacio == IF ruta = "grupo" THEN ConsultaGrupo(param) = {}
                     ELSE ConsultaEstudiante(param) = {}
        IN  /\ (vacio /\ ~fetch_fallido) =>
                  /\ respuesta.codigo = 200
                  /\ DOMAIN respuesta.cuerpo = {"mensaje"}
            /\ ~vacio => "mensaje" \notin DOMAIN respuesta.cuerpo

\* C7 witness: a group without events is asked for while the table holds
\* events of another group, and the answer is the message.
C7_Witness ==
    /\ pc = "done" /\ ruta = "grupo" /\ ~fetch_fallido
    /\ asistencias # {}
    /\ ConsultaGrupo(param) = {}
    /\ "mensaje" \in DOMAIN respuesta.cuerpo

\* The statistics branch of the per-group endpoint answered.
GrupoConDatos == Exito("grupo") /\ "mensaje" \notin DOMAIN respuesta.cuerpo

\* Events of the requested group in ISO week w with status s.
EnSemana(w, s) ==
    {a \in asistencias : a.grupo = param /\ SemanaISO(a.fecha) = w
                         /\ a.estado = s}

C9_ErrorSinParcial ==
    pc = "done" =>
        /\ respuesta.codigo \in {200, 500}
        /\ respuesta.codigo = 500 => DOMAIN respuesta.cuerpo = {"error"}
        /\ respuesta.codigo = 200 => "error" \notin DOMAIN respuesta.cuerpo
        /\ fetch_fallido =>
              /\ respuesta.codigo = 500
              /\ DOMAIN respuesta.cuerpo = {"error"}

\* C9 witness: the attendance query of a later group failed after an
\* earlier group had been aggregated, and the answer is the error.
C9_Witness ==
    /\ pc = "done" /\ ruta = "profesor" /\ fetch_fallido
    /\ resultados # << >>
    /\ pendientes # << >>
    /\ respuesta.codigo = 500

\* C10: every listed student carries one of the four risk levels.
C10_NivelDefinido ==
    Exito("desercion") =>
        \A i \in 1..Len(respuesta.cuerpo.estudiantes_en_riesgo) :
            respuesta.cuerpo.estudiantes_en_riesgo[i].nivel_riesgo
                \in {"CRITICO", "ALTO", "MEDIO", "BAJO"}

====
